---- MODULE Spec2Model ----
(***************************************************************************)
(* Model of uptime-telegram-bot.py: the outage classifier                  *)
(* (OutageAnalyzer), the event store (DatabaseManager), the notification   *)
(* cooldown (TelegramNotifier.send_alert) and the webhook handler          *)
(* (receive_webhook) that drives them.                                     *)
(***************************************************************************)
EXTENDS Integers, Sequences, FiniteSets, TLC

(***************************************************************************)
(* Bounds of the model.                                                    *)
(***************************************************************************)
\* longest event list handed directly to analyze_pattern
MaxWin == 4

\* number of webhook requests a server receives that handles one at a time
MaxRequests == 3

\* number of webhook requests the threaded server receives
MaxConcurrent == 2

\* number of reports a server receives while the power is out
MaxOutage == 4

\* number of read-add-read sequences the concurrent threads run on the store
MaxTransactions == 3

(***************************************************************************)
(* Monitor names.  The names are those of tests/fixtures/event_factory.py. *)
(***************************************************************************)
Router == "Router 192.168.1.1"

\* the monitors of the model's universe
MonitorNames ==
    {Router, "Google DNS", "Cloudflare DNS", "Google", "Wikipedia", "Unknown"}

\* the monitors of the router restart scenarios
RestartMonitors == {Router, "Google DNS", "Cloudflare DNS", "Wikipedia"}

\* the names of the universe in which the substring 'DNS' occurs
NamesWithDNS == {"Google DNS", "Cloudflare DNS"}

\* `'DNS' in name`
HasDNS(name) == name \in NamesWithDNS

\* `name in ['Google', 'Cloudflare', 'Wikipedia']`
IsExternalSite(name) == name \in {"Google", "Cloudflare", "Wikipedia"}

StatusValues == {"down", "up"}

\* Python's None, as the name or the status of an incomplete event
None == "None"

\* the names and statuses of the events of test_edge_case_empty_monitor_status,
\* and the router
IncompleteNames == {"Test", None, Router}

IncompleteStatuses == {"down", "up", None}

\* the monitors that report to the webhook
WebhookMonitors == {Router, "Google DNS"}

\* the monitors that report while the power is out
PowerMonitors == {Router, "Google DNS", "Cloudflare DNS"}

\* the worker threads of the Flask server
Threads == {"w1", "w2"}

\* the worker of a server that handles one request at a time
SeqThreads == {"w1"}

\* the instants (seconds) the clock of the server passes through
Instants == {0, 299, 300}

\* the instants of a server that stays up for more than a day: the start,
\* six minutes later, and a day and 100 seconds later
DayInstants == {0, 360, 86500}

\* CONFIG['ANALYSIS_WINDOW'], in minutes
ANALYSIS_WINDOW == 5

\* self.notification_cooldown, in seconds
notification_cooldown == 300

\* instants (seconds) at which the events of a directly supplied list are stamped
Stamps == {0, 25, 150}

\* the instant at which a directly supplied list is analysed
AnalysisInstant == 150

\* the grace period of a router restart, in seconds
GracePeriod == 30

\* the time after which a router that stays down has failed, in seconds
FailureThreshold == 120

(***************************************************************************)
(* Sequence helpers.                                                       *)
(***************************************************************************)
Range(s) == {s[i] : i \in 1..Len(s)}

NoDuplicates(s) == \A i, j \in 1..Len(s) : i # j => s[i] # s[j]

\* statuses.count('down')
CountDown(statuses) == Cardinality({i \in 1..Len(statuses) : statuses[i] = "down"})

(***************************************************************************)
(* OutageAnalyzer                                                          *)
(***************************************************************************)

\* mutant: half of the statuses down is enough
is_monitor_down_half(statuses) ==
    IF statuses = <<>> THEN FALSE
    ELSE statuses[1] = "down" \/ 2 * CountDown(statuses) >= Len(statuses)

\* mutant: one 'down' among the statuses is enough
is_monitor_down_any(statuses) == CountDown(statuses) > 0

\* mutant: only a majority of 'down' counts, the newest status does not
is_monitor_down_majority(statuses) ==
    IF statuses = <<>> THEN FALSE
    ELSE 2 * CountDown(statuses) > Len(statuses)

\* _is_monitor_down: statuses[0] == 'down' or statuses.count('down') > len(statuses) / 2
is_monitor_down(statuses) ==
    IF statuses = <<>> THEN FALSE
    ELSE statuses[1] = "down" \/ 2 * CountDown(statuses) > Len(statuses)

\* the keys of the defaultdict, in insertion order (order of first occurrence)
RECURSIVE monitor_keys(_)
monitor_keys(recent_events) ==
    IF recent_events = <<>> THEN <<>>
    ELSE LET n == Len(recent_events)
             before == monitor_keys(SubSeq(recent_events, 1, n - 1))
             name == recent_events[n].monitor_name
         IN  IF name \in Range(before) THEN before ELSE Append(before, name)

\* monitor_status[name]: the statuses appended in the order of the list;
\* monitor_status.get(name, []) for a name that is no key
RECURSIVE statuses_of(_, _)
statuses_of(recent_events, name) ==
    IF recent_events = <<>> THEN <<>>
    ELSE LET rest == statuses_of(Tail(recent_events), name)
         IN  IF Head(recent_events).monitor_name = name
             THEN <<Head(recent_events).status>> \o rest
             ELSE rest

\* mutant: only the first of the down monitors is listed
down_monitors_first(recent_events) ==
    LET IsDown(name) == is_monitor_down(statuses_of(recent_events, name))
        down == SelectSeq(monitor_keys(recent_events), IsDown)
    IN  IF down = <<>> THEN <<>> ELSE <<down[1]>>

\* [name for name in monitor_status if self._is_monitor_down(monitor_status[name])]
down_monitors(recent_events) ==
    LET IsDown(name) == is_monitor_down(statuses_of(recent_events, name))
    IN  SelectSeq(monitor_keys(recent_events), IsDown)

\* sum(1 for name in monitor_status if 'DNS' in name and down)
dns_monitors_down(recent_events) ==
    Cardinality({name \in Range(monitor_keys(recent_events)) :
                    HasDNS(name) /\ is_monitor_down(statuses_of(recent_events, name))})

\* sum(1 for name in monitor_status if name in [...] and down)
external_sites_down(recent_events) ==
    Cardinality({name \in Range(monitor_keys(recent_events)) :
                    IsExternalSite(name) /\ is_monitor_down(statuses_of(recent_events, name))})

\* mutant: both counts are required
services_down_both(dns, ext) == dns >= 2 /\ ext >= 2

\* mutant: the two counts are added together
services_down_sum(dns, ext) == dns + ext >= 2

\* dns_monitors_down >= 2 or external_sites_down >= 2
services_down(dns, ext) == dns >= 2 \/ ext >= 2

\* mutant: the affected list of an ISP outage is every monitor of the list
isp_outage_all(recent_events) ==
    [type |-> "ISP_OUTAGE", confidence |-> 90,
     reason |-> "Internet services down but router is up",
     affected |-> monitor_keys(recent_events)]

\* the ISP_OUTAGE result
isp_outage(recent_events) ==
    [type |-> "ISP_OUTAGE", confidence |-> 90,
     reason |-> "Internet services down but router is up",
     affected |-> down_monitors(recent_events)]

\* the POWER_OUTAGE result: affected is list(monitor_status.keys())
power_outage(recent_events) ==
    [type |-> "POWER_OUTAGE", confidence |-> 95,
     reason |-> "Router and external services are down",
     affected |-> monitor_keys(recent_events)]

\* mutant: a router that is down alone is reported as a partial outage
router_failure_partial ==
    [type |-> "PARTIAL_OUTAGE", confidence |-> 70,
     reason |-> "Only specific services affected",
     affected |-> <<Router>>]

\* mutant: the ROUTER_FAILURE result names no monitor
router_failure_unlisted ==
    [type |-> "ROUTER_FAILURE", confidence |-> 80,
     reason |-> "Only router is down",
     affected |-> <<>>]

\* the ROUTER_FAILURE result
router_failure ==
    [type |-> "ROUTER_FAILURE", confidence |-> 80,
     reason |-> "Only router is down",
     affected |-> <<Router>>]

\* mutant: an empty list is reported as all operational
no_recent_events_operational ==
    [type |-> "ALL_OPERATIONAL", confidence |-> 100,
     reason |-> "All services operational", affected |-> <<>>]

\* the result for an empty list: a dict without the key 'affected'
no_recent_events ==
    [type |-> "UNKNOWN", confidence |-> 0, reason |-> "No recent events"]

\* the exception `'DNS' in name` raises for the key None:
\* TypeError: argument of type 'NoneType' is not iterable
TypeError == [type |-> "TypeError"]

\* analyze_pattern; confidence is in percent.  The sum of lines 181-182
\* evaluates `'DNS' in name` for every key of the dict.
analyze_pattern(recent_events) ==
    IF recent_events = <<>>
    THEN no_recent_events
    ELSE IF None \in Range(monitor_keys(recent_events))
    THEN TypeError
    ELSE LET router_down == is_monitor_down(statuses_of(recent_events, Router))
             dns == dns_monitors_down(recent_events)
             ext == external_sites_down(recent_events)
             down == down_monitors(recent_events)
         IN  IF router_down
             THEN IF services_down(dns, ext)
                  THEN power_outage(recent_events)
                  ELSE router_failure
             ELSE IF services_down(dns, ext)
                  THEN isp_outage(recent_events)
                  ELSE IF down # <<>>
                       THEN [type |-> "PARTIAL_OUTAGE", confidence |-> 70,
                             reason |-> "Only specific services affected",
                             affected |-> down]
                       ELSE [type |-> "ALL_OPERATIONAL", confidence |-> 100,
                             reason |-> "All services operational",
                             affected |-> <<>>]

\* result.get('affected', [])
Affected(r) == IF "affected" \in DOMAIN r THEN r.affected ELSE <<>>

\* result.get('is_temporary', False): no result of analyze_pattern has the key
IsTransient(r) ==
    IF "is_transient" \in DOMAIN r THEN r.is_transient
    ELSE IF "is_temporary" \in DOMAIN r THEN r.is_temporary ELSE FALSE

(***************************************************************************)
(* DatabaseManager                                                         *)
(***************************************************************************)
Reverse(s) == [i \in 1..Len(s) |-> s[Len(s) + 1 - i]]

\* get_recent_events: WHERE timestamp > cutoff ORDER BY timestamp DESC.
\* The table is kept in the order of the timestamps (add_event stamps a row
\* with the clock), rows of one instant in the order of their arrival.
get_recent_events(rows, clock, minutes) ==
    LET cutoff_time == clock - minutes * 60
        Recent(row) == row.timestamp > cutoff_time
    IN  SelectSeq(Reverse(rows), Recent)

(***************************************************************************)
(* TelegramNotifier.send_alert: the cooldown                               *)
(***************************************************************************)
\* mutant: the key is the analysis type alone
alert_key_by_type(ev, an) == <<an.type, "">>

\* alert_key = f"{analysis['type']}:{event.monitor_name}"
alert_key(ev, an) == <<an.type, ev.monitor_name>>

\* timedelta.seconds: the seconds within the day, the days are left out
timedelta_seconds(delta) == delta % 86400

\* mutant: the cooldown ends one second early
in_cooldown_short(last, key, clock) ==
    /\ key \in DOMAIN last
    /\ timedelta_seconds(clock - last[key]) < notification_cooldown - 1

\* alert_key in self.last_notification and
\* (now - self.last_notification[alert_key]).seconds < self.notification_cooldown
in_cooldown(last, key, clock) ==
    /\ key \in DOMAIN last
    /\ timedelta_seconds(clock - last[key]) < notification_cooldown

\* mutant: an entry, once made, keeps its first instant
record_sent_first(last, key, clock) ==
    [k \in DOMAIN last \cup {key} |-> IF k \in DOMAIN last THEN last[k] ELSE clock]

\* self.last_notification[alert_key] = now
record_sent(last, key, clock) ==
    [k \in DOMAIN last \cup {key} |-> IF k = key THEN clock ELSE last[k]]

(***************************************************************************)
(* receive_webhook: the request body                                       *)
(***************************************************************************)
\* a body: heartbeat and monitor are <<>> when the key is absent, and so are
\* status and name inside them; msg is "" when the key is absent
Heartbeat(status, name, msg) ==
    [heartbeat |-> <<[status |-> <<status>>]>>,
     monitor |-> <<[name |-> <<name>>]>>,
     msg |-> msg]

TestBody == [heartbeat |-> <<>>, monitor |-> <<>>, msg |-> "Testing"]

\* the bodies Uptime Kuma posts: "[name] is down", "[name] is up", a test
WebhookBodies ==
    {Heartbeat(0, name, "is down") : name \in WebhookMonitors}
        \cup {Heartbeat(1, name, "is up") : name \in WebhookMonitors}
        \cup {TestBody}

\* the bodies that lack a required field: no heartbeat, no monitor, no
\* heartbeat.status, no monitor.name
IncompleteBodies ==
    {[heartbeat |-> <<>>, monitor |-> <<[name |-> <<"Test">>]>>, msg |-> "test"],
     [heartbeat |-> <<[status |-> <<1>>]>>, monitor |-> <<>>, msg |-> "test"],
     [heartbeat |-> <<[status |-> <<>>]>>, monitor |-> <<[name |-> <<"Test">>]>>,
      msg |-> ""],
     [heartbeat |-> <<[status |-> <<1>>]>>, monitor |-> <<[name |-> <<>>]>>,
      msg |-> ""]}

\* the bodies request.json cannot parse: malformed JSON and the empty body
UnparsableBodies ==
    {"{\"heartbeat\": {\"status\": 1, \"time\": broken json}", ""}

\* the bodies line 408-411 takes for a test notification: msg with
\* 'testing' and no heartbeat or monitor, neither of them and another msg,
\* msg with 'testing' around a heartbeat and a monitor
TestNotifications ==
    {TestBody,
     [heartbeat |-> <<>>, monitor |-> <<>>, msg |-> ""],
     Heartbeat(1, "Google DNS", "Testing")}

\* the reports of the router, posted between the test notifications
RouterBodies == {Heartbeat(0, Router, "is down"), Heartbeat(1, Router, "is up")}

\* the bodies posted while the power is out: every monitor reports DOWN
PowerBodies == {Heartbeat(0, name, "is down") : name \in PowerMonitors}

\* data.get('msg', '').lower().find('testing') >= 0
MsgHasTesting(msg) == msg \in {"Testing"}

\* data.get('msg', '').lower().find('up') >= 0
MsgHasUp(msg) == msg \in {"is up"}

\* mutant: only the text of msg makes a test notification
is_test_by_msg(data) == MsgHasTesting(data.msg)

is_test(data) ==
    MsgHasTesting(data.msg) \/ (data.heartbeat = <<>> /\ data.monitor = <<>>)

\* heartbeat = data.get('heartbeat', {})
heartbeat_of(data) ==
    IF data.heartbeat = <<>> THEN [status |-> <<>>] ELSE data.heartbeat[1]

\* monitor = data.get('monitor', {})
monitor_of(data) ==
    IF data.monitor = <<>> THEN [name |-> <<>>] ELSE data.monitor[1]

\* MonitorEvent(monitor_name=..., status=..., timestamp=datetime.now(), message=...)
MonitorEvent(data, clock) ==
    [monitor_name |-> IF monitor_of(data).name = <<>>
                      THEN "Unknown" ELSE monitor_of(data).name[1],
     status |-> IF heartbeat_of(data).status = <<0>> THEN "down" ELSE "up",
     timestamp |-> clock,
     message |-> data.msg]

\* event.status == 'up' and data.get('msg', '').lower().find('up') >= 0
is_recovery(ev) == ev.status = "up" /\ MsgHasUp(ev.message)

(***************************************************************************)
(* State                                                                   *)
(***************************************************************************)
VARIABLES
    now,                \* datetime.now(), in seconds
    recent_events,      \* the list a caller hands to analyze_pattern (newest first)
    result,             \* what analyze_pattern returned for it, or NoResult
    events,             \* the rows of the events table, in the order of insertion
    last_notification,  \* TelegramNotifier.last_notification: alert key -> instant
    bot_calls,          \* the calls of bot.send_message so far
    requests,           \* number of webhook requests received
    pc,                 \* where each worker is in receive_webhook
    event,              \* receive_webhook: event
    window,             \* receive_webhook: recent_events
    analysis,           \* receive_webhook: analysis
    alert_now,          \* send_alert: now
    response,           \* the HTTP status a worker answered last (0: none)
    initial_count,      \* transaction_test: initial_count of each thread
    results             \* transaction_test: the list results

analyzer_vars == <<recent_events, result>>

\* the locals and the result list of the threads of test_transaction_isolation
isolation_vars == <<initial_count, results>>

server_vars ==
    <<events, last_notification, bot_calls, requests, pc, event, window,
      analysis, alert_now, response, initial_count, results>>

vars == <<now, recent_events, result, events, last_notification, bot_calls,
          requests, pc, event, window, analysis, alert_now, response,
          initial_count, results>>

NoResult == [type |-> "none"]

NoEvent == [monitor_name |-> "", status |-> "", timestamp |-> 0, message |-> ""]

NoKey == <<"", "">>

\* the state after run_telegram_bot built db_manager and telegram_notifier
InitServer ==
    /\ events = <<>>
    /\ last_notification = [k \in {} |-> 0]
    /\ bot_calls = <<>>
    /\ requests = 0
    /\ pc = [t \in Threads |-> "idle"]
    /\ event = [t \in Threads |-> NoEvent]
    /\ window = [t \in Threads |-> <<>>]
    /\ analysis = [t \in Threads |-> NoResult]
    /\ alert_now = [t \in Threads |-> 0]
    /\ response = [t \in Threads |-> 0]
    /\ initial_count = [t \in Threads |-> 0]
    /\ results = <<>>

(***************************************************************************)
(* Direct calls of analyze_pattern on a list of events, newest first, as   *)
(* get_recent_events returns it (ORDER BY timestamp DESC).                 *)
(***************************************************************************)
InitAnalyzer ==
    /\ now = AnalysisInstant
    /\ recent_events = <<>>
    /\ result = NoResult
    /\ InitServer

\* result = analyzer.analyze_pattern([])
AnalyzeEmpty ==
    /\ recent_events = <<>>
    /\ result = NoResult
    /\ result' = analyze_pattern(recent_events)
    /\ UNCHANGED <<now, recent_events, server_vars>>

\* the caller's list gets one more, older, event at its end and
\* result = analyzer.analyze_pattern(recent_events) is called on it
AnalyzeList(name, status, stamp) ==
    /\ Len(recent_events) < MaxWin
    /\ recent_events # <<>> => stamp <= recent_events[Len(recent_events)].timestamp
    /\ recent_events' = Append(recent_events,
            [monitor_name |-> name, status |-> status, timestamp |-> stamp])
    /\ result' = analyze_pattern(recent_events')
    /\ UNCHANGED <<now, server_vars>>

\* lists over all the monitors, every event stamped with the current instant
NextAnalyzer ==
    \/ AnalyzeEmpty
    \/ \E name \in MonitorNames, status \in StatusValues :
            AnalyzeList(name, status, AnalysisInstant)

SpecAnalyzer == InitAnalyzer /\ [][NextAnalyzer]_vars

\* lists of the router restart scenarios, the events stamped at several instants
NextRestart ==
    \/ AnalyzeEmpty
    \/ \E name \in RestartMonitors, status \in StatusValues, stamp \in Stamps :
            AnalyzeList(name, status, stamp)

SpecRestart == InitAnalyzer /\ [][NextRestart]_vars

\* lists with incomplete events: the name or the status may be None
NextIncomplete ==
    \/ AnalyzeEmpty
    \/ \E name \in IncompleteNames, status \in IncompleteStatuses :
            AnalyzeList(name, status, AnalysisInstant)

SpecIncomplete == InitAnalyzer /\ [][NextIncomplete]_vars

(***************************************************************************)
(* The webhook server: receive_webhook run by the workers of Flask, each   *)
(* request stepping through add_event, get_recent_events and               *)
(* analyze_pattern, send_alert (cooldown check, bot.send_message, record)  *)
(* or send_recovery.                                                       *)
(***************************************************************************)
Init ==
    /\ now = 0
    /\ recent_events = <<>>
    /\ result = NoResult
    /\ InitServer

\* the call bot.send_message(...) as the mock of the tests records it
BotCall(kind, key, at, ok) == [kind |-> kind, key |-> key, at |-> at, ok |-> ok]

\* the request is over: the worker answers and drops its locals
Respond(t, status) ==
    /\ pc' = [pc EXCEPT ![t] = "idle"]
    /\ response' = [response EXCEPT ![t] = status]
    /\ event' = [event EXCEPT ![t] = NoEvent]
    /\ window' = [window EXCEPT ![t] = <<>>]
    /\ analysis' = [analysis EXCEPT ![t] = NoResult]
    /\ alert_now' = [alert_now EXCEPT ![t] = 0]

\* lines 404-416: a test notification is answered with the confirmation;
\* send_test_confirmation raises when the Telegram call fails
ReceiveTest(t, data, ok, limit) ==
    /\ pc[t] = "idle"
    /\ requests < limit
    /\ is_test(data)
    /\ requests' = requests + 1
    /\ bot_calls' = Append(bot_calls, BotCall("test", NoKey, now, ok))
    /\ Respond(t, IF ok THEN 200 ELSE 500)
    /\ UNCHANGED <<now, analyzer_vars, isolation_vars, events, last_notification>>

\* lines 403 and 449-451: request.json raises BadRequest on a body it cannot
\* parse; the handler's except clause answers 500
ReceiveUnparsable(t, raw, limit) ==
    /\ pc[t] = "idle"
    /\ requests < limit
    /\ raw \in UnparsableBodies
    /\ requests' = requests + 1
    /\ Respond(t, 500)
    /\ UNCHANGED <<now, analyzer_vars, isolation_vars, events,
                   last_notification, bot_calls>>

\* mutant: the event is parsed but never stored
ReceiveWebhookUnstored(t, data, limit) ==
    /\ pc[t] = "idle"
    /\ requests < limit
    /\ ~is_test(data)
    /\ requests' = requests + 1
    /\ LET ev == MonitorEvent(data, now)
       IN  /\ event' = [event EXCEPT ![t] = ev]
           /\ events' = events
    /\ pc' = [pc EXCEPT ![t] = "analyze"]
    /\ response' = [response EXCEPT ![t] = 0]
    /\ UNCHANGED <<now, analyzer_vars, isolation_vars, last_notification, bot_calls, window,
                   analysis, alert_now>>

\* mutant: the event replaces the stored events of its monitor
ReceiveWebhookReplacing(t, data, limit) ==
    /\ pc[t] = "idle"
    /\ requests < limit
    /\ ~is_test(data)
    /\ requests' = requests + 1
    /\ LET ev == MonitorEvent(data, now)
       IN  /\ event' = [event EXCEPT ![t] = ev]
           /\ events' = Append(SelectSeq(events,
                      LAMBDA row : row.monitor_name # ev.monitor_name),
                  [monitor_name |-> ev.monitor_name, status |-> ev.status,
                   timestamp |-> ev.timestamp])
    /\ pc' = [pc EXCEPT ![t] = "analyze"]
    /\ response' = [response EXCEPT ![t] = 0]
    /\ UNCHANGED <<now, analyzer_vars, isolation_vars, last_notification, bot_calls, window,
                   analysis, alert_now>>

\* lines 404-431: the body is parsed into an event, stamped with the clock,
\* and add_event stores it
ReceiveWebhook(t, data, limit) ==
    /\ pc[t] = "idle"
    /\ requests < limit
    /\ ~is_test(data)
    /\ requests' = requests + 1
    /\ LET ev == MonitorEvent(data, now)
       IN  /\ event' = [event EXCEPT ![t] = ev]
           /\ events' = Append(events,
                  [monitor_name |-> ev.monitor_name, status |-> ev.status,
                   timestamp |-> ev.timestamp])
    /\ pc' = [pc EXCEPT ![t] = "analyze"]
    /\ response' = [response EXCEPT ![t] = 0]
    /\ UNCHANGED <<now, analyzer_vars, isolation_vars, last_notification, bot_calls, window,
                   analysis, alert_now>>

\* mutant: the classification stores the event once more
AnalyzeWindowStoring(t) ==
    /\ pc[t] = "analyze"
    /\ LET fetched == get_recent_events(events, now, ANALYSIS_WINDOW)
           an == analyze_pattern(fetched)
       IN  IF an = TypeError
           THEN Respond(t, 500)
           ELSE IF an.type # "ALL_OPERATIONAL"
           THEN /\ pc' = [pc EXCEPT ![t] = "send_alert"]
                /\ window' = [window EXCEPT ![t] = fetched]
                /\ analysis' = [analysis EXCEPT ![t] = an]
                /\ UNCHANGED <<event, alert_now, response>>
           ELSE IF is_recovery(event[t])
           THEN /\ pc' = [pc EXCEPT ![t] = "send_recovery"]
                /\ window' = [window EXCEPT ![t] = fetched]
                /\ analysis' = [analysis EXCEPT ![t] = an]
                /\ UNCHANGED <<event, alert_now, response>>
           ELSE Respond(t, 200)
    /\ events' = Append(events,
           [monitor_name |-> event[t].monitor_name, status |-> event[t].status,
            timestamp |-> now])
    /\ UNCHANGED <<now, analyzer_vars, isolation_vars, last_notification, bot_calls, requests>>

\* lines 433-451: the window is fetched and classified; the handler goes on
\* to send_alert or send_recovery, or answers at once (500 when
\* analyze_pattern raised)
AnalyzeWindow(t) ==
    /\ pc[t] = "analyze"
    /\ LET fetched == get_recent_events(events, now, ANALYSIS_WINDOW)
           an == analyze_pattern(fetched)
       IN  IF an = TypeError
           THEN Respond(t, 500)
           ELSE IF an.type # "ALL_OPERATIONAL"
           THEN /\ pc' = [pc EXCEPT ![t] = "send_alert"]
                /\ window' = [window EXCEPT ![t] = fetched]
                /\ analysis' = [analysis EXCEPT ![t] = an]
                /\ UNCHANGED <<event, alert_now, response>>
           ELSE IF is_recovery(event[t])
           THEN /\ pc' = [pc EXCEPT ![t] = "send_recovery"]
                /\ window' = [window EXCEPT ![t] = fetched]
                /\ analysis' = [analysis EXCEPT ![t] = an]
                /\ UNCHANGED <<event, alert_now, response>>
           ELSE Respond(t, 200)
    /\ UNCHANGED <<now, analyzer_vars, isolation_vars, events, last_notification, bot_calls,
                   requests>>

\* mutant: a suppressed call restarts the cooldown of its key
CheckCooldownTouching(t) ==
    /\ pc[t] = "send_alert"
    /\ IF in_cooldown(last_notification, alert_key(event[t], analysis[t]), now)
       THEN /\ Respond(t, 200)
            /\ last_notification' = record_sent(last_notification,
                   alert_key(event[t], analysis[t]), now)
       ELSE /\ pc' = [pc EXCEPT ![t] = "send_message"]
            /\ alert_now' = [alert_now EXCEPT ![t] = now]
            /\ UNCHANGED <<event, window, analysis, response, last_notification>>
    /\ UNCHANGED <<now, analyzer_vars, isolation_vars, events, bot_calls, requests>>

\* lines 318-323: the cooldown check of send_alert
CheckCooldown(t) ==
    /\ pc[t] = "send_alert"
    /\ IF in_cooldown(last_notification, alert_key(event[t], analysis[t]), now)
       THEN Respond(t, 200)
       ELSE /\ pc' = [pc EXCEPT ![t] = "send_message"]
            /\ alert_now' = [alert_now EXCEPT ![t] = now]
            /\ UNCHANGED <<event, window, analysis, response>>
    /\ UNCHANGED <<now, analyzer_vars, isolation_vars, events, last_notification, bot_calls,
                   requests>>

\* mutant: the send is recorded whether or not the message went out
SendMessageRecording(t, ok) ==
    /\ pc[t] = "send_message"
    /\ bot_calls' = Append(bot_calls,
           BotCall("alert", alert_key(event[t], analysis[t]), alert_now[t], ok))
    /\ last_notification' = record_sent(last_notification,
           alert_key(event[t], analysis[t]), alert_now[t])
    /\ IF ok
       THEN /\ pc' = [pc EXCEPT ![t] = "record"]
            /\ UNCHANGED <<event, window, analysis, alert_now, response>>
       ELSE Respond(t, 500)
    /\ UNCHANGED <<now, analyzer_vars, isolation_vars, events, requests>>

\* lines 365-369: await self.bot.send_message(...); when it raises, the
\* exception leaves send_alert and receive_webhook answers 500
SendMessage(t, ok) ==
    /\ pc[t] = "send_message"
    /\ bot_calls' = Append(bot_calls,
           BotCall("alert", alert_key(event[t], analysis[t]), alert_now[t], ok))
    /\ IF ok
       THEN /\ pc' = [pc EXCEPT ![t] = "record"]
            /\ UNCHANGED <<event, window, analysis, alert_now, response>>
       ELSE Respond(t, 500)
    /\ UNCHANGED <<now, analyzer_vars, isolation_vars, events, last_notification, requests>>

\* lines 371-372: self.last_notification[alert_key] = now
RecordSent(t) ==
    /\ pc[t] = "record"
    /\ last_notification' = record_sent(last_notification,
           alert_key(event[t], analysis[t]), alert_now[t])
    /\ Respond(t, 200)
    /\ UNCHANGED <<now, analyzer_vars, isolation_vars, events, bot_calls, requests>>

\* mutant: a recovery message that went out is entered in the cooldown map
SendRecoveryRecording(t, ok) ==
    /\ pc[t] = "send_recovery"
    /\ bot_calls' = Append(bot_calls,
           BotCall("recovery", <<"", event[t].monitor_name>>, now, ok))
    /\ last_notification' =
           IF ok THEN record_sent(last_notification,
                          alert_key(event[t], analysis[t]), now)
                 ELSE last_notification
    /\ Respond(t, IF ok THEN 200 ELSE 500)
    /\ UNCHANGED <<now, analyzer_vars, isolation_vars, events, requests>>

\* lines 266-313: send_recovery sends its message without any cooldown
SendRecovery(t, ok) ==
    /\ pc[t] = "send_recovery"
    /\ bot_calls' = Append(bot_calls,
           BotCall("recovery", <<"", event[t].monitor_name>>, now, ok))
    /\ Respond(t, IF ok THEN 200 ELSE 500)
    /\ UNCHANGED <<now, analyzer_vars, isolation_vars, events, last_notification, requests>>

(***************************************************************************)
(* Threads that use the DatabaseManager directly: each reads the number of *)
(* recent events, adds an event and reads the number again                 *)
(* (transaction_test of test_transaction_isolation).                       *)
(***************************************************************************)
\* f"Transaction_Monitor_{delay}"
TransactionMonitor(t) == IF t = "w1" THEN "Transaction_Monitor_0.0"
                                     ELSE "Transaction_Monitor_0.01"

\* initial_count = len(db_manager.get_recent_events(minutes=60))
ReadInitial(t) ==
    /\ pc[t] = "idle"
    /\ requests < MaxTransactions
    /\ requests' = requests + 1
    /\ initial_count' = [initial_count EXCEPT
            ![t] = Len(get_recent_events(events, now, 60))]
    /\ pc' = [pc EXCEPT ![t] = "add_event"]
    /\ UNCHANGED <<now, analyzer_vars, events, last_notification, bot_calls,
                   event, window, analysis, alert_now, response, results>>

\* db_manager.add_event(event), the event stamped with datetime.now()
AddEvent(t) ==
    /\ pc[t] = "add_event"
    /\ events' = Append(events,
           [monitor_name |-> TransactionMonitor(t), status |-> "up",
            timestamp |-> now])
    /\ pc' = [pc EXCEPT ![t] = "final_count"]
    /\ UNCHANGED <<now, analyzer_vars, isolation_vars, last_notification,
                   bot_calls, requests, event, window, analysis, alert_now,
                   response>>

\* final_count = len(db_manager.get_recent_events(minutes=60));
\* results.append(final_count - initial_count)
ReadFinal(t) ==
    /\ pc[t] = "final_count"
    /\ results' = Append(results,
           Len(get_recent_events(events, now, 60)) - initial_count[t])
    /\ pc' = [pc EXCEPT ![t] = "idle"]
    /\ UNCHANGED <<now, analyzer_vars, events, last_notification, bot_calls,
                   requests, event, window, analysis, alert_now, response,
                   initial_count>>

\* the clock moves on to a later instant
Tick(later) ==
    /\ later > now
    /\ now' = later
    /\ UNCHANGED <<analyzer_vars, server_vars>>

\* a worker takes a step of its request
Work(t) ==
    \/ AnalyzeWindow(t)
    \/ CheckCooldown(t)
    \/ \E ok \in BOOLEAN : SendMessage(t, ok)
    \/ RecordSent(t)
    \/ \E ok \in BOOLEAN : SendRecovery(t, ok)

\* the threaded server: requests are handled concurrently
Next ==
    \/ \E t \in Threads, data \in WebhookBodies, ok \in BOOLEAN :
            ReceiveTest(t, data, ok, MaxConcurrent)
    \/ \E t \in Threads, data \in WebhookBodies :
            ReceiveWebhook(t, data, MaxConcurrent)
    \/ \E t \in Threads : Work(t)
    \/ \E later \in Instants : Tick(later)

Spec == Init /\ [][Next]_vars

\* one request at a time: the only worker receives a request when it is idle
NextSeq ==
    \/ \E t \in SeqThreads, data \in WebhookBodies, ok \in BOOLEAN :
            ReceiveTest(t, data, ok, MaxRequests)
    \/ \E t \in SeqThreads, data \in WebhookBodies :
            ReceiveWebhook(t, data, MaxRequests)
    \/ \E t \in SeqThreads : Work(t)
    \/ \E later \in Instants : Tick(later)

SpecSeq == Init /\ [][NextSeq]_vars

\* one request at a time, test notifications among the router's reports
NextTest ==
    \/ \E t \in SeqThreads, data \in TestNotifications \cup RouterBodies,
          ok \in BOOLEAN :
            ReceiveTest(t, data, ok, MaxRequests)
    \/ \E t \in SeqThreads, data \in TestNotifications \cup RouterBodies :
            ReceiveWebhook(t, data, MaxRequests)
    \/ \E t \in SeqThreads : Work(t)
    \/ \E later \in Instants : Tick(later)

SpecTest == Init /\ [][NextTest]_vars

\* one request at a time on a server that stays up for more than a day
NextDays ==
    \/ \E t \in SeqThreads, data \in WebhookBodies, ok \in BOOLEAN :
            ReceiveTest(t, data, ok, MaxRequests)
    \/ \E t \in SeqThreads, data \in WebhookBodies :
            ReceiveWebhook(t, data, MaxRequests)
    \/ \E t \in SeqThreads : Work(t)
    \/ \E later \in DayInstants : Tick(later)

SpecDays == Init /\ [][NextDays]_vars

\* one request at a time while the power goes out
NextPower ==
    \/ \E t \in SeqThreads, data \in PowerBodies :
            ReceiveWebhook(t, data, MaxOutage)
    \/ \E t \in SeqThreads : AnalyzeWindow(t)
    \/ \E t \in SeqThreads : CheckCooldown(t)
    \/ \E t \in SeqThreads, ok \in BOOLEAN : SendMessage(t, ok)
    \/ \E t \in SeqThreads : RecordSent(t)
    \/ \E later \in Instants : Tick(later)

SpecPower == Init /\ [][NextPower]_vars

\* one request at a time, each with a body that cannot be parsed or that
\* lacks a required field
NextPayload ==
    \/ \E t \in SeqThreads, raw \in UnparsableBodies :
            ReceiveUnparsable(t, raw, MaxRequests)
    \/ \E t \in SeqThreads, data \in IncompleteBodies :
            ReceiveWebhook(t, data, MaxRequests)
    \/ \E t \in SeqThreads : AnalyzeWindow(t)
    \/ \E later \in Instants : Tick(later)

SpecPayload == Init /\ [][NextPayload]_vars

\* the threads of the ThreadPoolExecutor, run concurrently
NextIsolation ==
    \/ \E t \in Threads : ReadInitial(t)
    \/ \E t \in Threads : AddEvent(t)
    \/ \E t \in Threads : ReadFinal(t)
    \/ \E later \in Instants : Tick(later)

SpecIsolation == Init /\ [][NextIsolation]_vars

(***************************************************************************)
(* A condition that persists for days: every webhook is a DOWN report of   *)
(* the router, classified ROUTER_FAILURE, so that send_alert is called     *)
(* with the same alert key for ever.  send_alert reads the clock only      *)
(* through (now - last).seconds, which is the difference of the two times  *)
(* of day modulo 86400; the clock of this specification is the time of     *)
(* day, and moving it to an earlier time of day is the passing of a night. *)
(***************************************************************************)
\* the times of day (seconds after midnight) at which something happens
TimesOfDay == {0, 100, 300, 43200, 86399}

\* line 443: asyncio.run(telegram_notifier.send_alert(event, analysis)) for
\* the router's DOWN report, classified ROUTER_FAILURE
CallSendAlert(t) ==
    /\ pc[t] = "idle"
    /\ pc' = [pc EXCEPT ![t] = "send_alert"]
    /\ event' = [event EXCEPT ![t] = MonitorEvent(Heartbeat(0, Router, "is down"), now)]
    /\ analysis' = [analysis EXCEPT ![t] = router_failure]
    /\ response' = [response EXCEPT ![t] = 0]
    /\ UNCHANGED <<now, analyzer_vars, isolation_vars, events,
                   last_notification, bot_calls, requests, window, alert_now>>

\* lines 365-369: await self.bot.send_message(...), the calls left
\* unrecorded; when it raises, receive_webhook answers 500
AwaitSendMessage(t, ok) ==
    /\ pc[t] = "send_message"
    /\ IF ok
       THEN /\ pc' = [pc EXCEPT ![t] = "record"]
            /\ UNCHANGED <<event, window, analysis, alert_now, response>>
       ELSE Respond(t, 500)
    /\ UNCHANGED <<now, analyzer_vars, isolation_vars, events,
                   last_notification, bot_calls, requests>>

\* datetime.now() shows another time of day: time has passed
TickOfDay(later) ==
    /\ later # now
    /\ now' = later
    /\ UNCHANGED <<analyzer_vars, server_vars>>

NextAlive ==
    \/ \E t \in SeqThreads : CallSendAlert(t)
    \/ \E t \in SeqThreads : CheckCooldown(t)
    \/ \E t \in SeqThreads, ok \in BOOLEAN : AwaitSendMessage(t, ok)
    \/ \E t \in SeqThreads : RecordSent(t)
    \/ \E later \in TimesOfDay : TickOfDay(later)

\* webhooks keep arriving, the handler runs to its end, the Telegram call
\* does not fail for ever, and time passes
FairAlive ==
    /\ \A t \in SeqThreads :
          /\ SF_vars(CallSendAlert(t))
          /\ WF_vars(CheckCooldown(t))
          /\ SF_vars(AwaitSendMessage(t, TRUE))
          /\ WF_vars(RecordSent(t))
    /\ WF_vars(\E later \in TimesOfDay : TickOfDay(later))

SpecAlive == Init /\ [][NextAlive]_vars /\ FairAlive

(***************************************************************************)
(* What the claims speak of, stated on the event list itself.              *)
(***************************************************************************)
\* the positions of a monitor's events in a list (1 is the newest)
EventsOf(w, name) == {i \in 1..Len(w) : w[i].monitor_name = name}

Newest(w, name) == CHOOSE i \in EventsOf(w, name) : \A j \in EventsOf(w, name) : i <= j

\* effective down-state: newest status down, or a strict majority down
EffectivelyDown(w, name) ==
    /\ EventsOf(w, name) # {}
    /\ \/ w[Newest(w, name)].status = "down"
       \/ 2 * Cardinality({i \in EventsOf(w, name) : w[i].status = "down"})
             > Cardinality(EventsOf(w, name))

MonitorsIn(w) == {w[i].monitor_name : i \in 1..Len(w)}

DownSet(w) == {name \in MonitorsIn(w) : EffectivelyDown(w, name)}

DnsDown(w) == {name \in DownSet(w) : name \in NamesWithDNS}

SitesDown(w) == {name \in DownSet(w) : name \in {"Google", "Cloudflare", "Wikipedia"}}

ServicesDown(w) == Cardinality(DnsDown(w)) >= 2 \/ Cardinality(SitesDown(w)) >= 2

Analysed == result # NoResult

\* C1: for every non-empty list in which the router is effectively down and
\* at least 2 DNS monitors or at least 2 external sites are effectively down,
\* analyze_pattern returns POWER_OUTAGE, whatever else is in the list and in
\* whatever order the monitors occur.
C1_PowerOutage ==
    (Analysed /\ Router \in DownSet(recent_events) /\ ServicesDown(recent_events))
        => result.type = "POWER_OUTAGE"

\* a power outage in which an up monitor precedes the router in the list
C1_Witness ==
    /\ Analysed /\ Router \in DownSet(recent_events) /\ ServicesDown(recent_events)
    /\ result.type = "POWER_OUTAGE"
    /\ recent_events[1].monitor_name # Router
    /\ recent_events[1].monitor_name \notin DownSet(recent_events)

\* C2: when the router is not effectively down and at least 2 DNS monitors or
\* at least 2 external sites are, analyze_pattern returns ISP_OUTAGE and the
\* affected list holds exactly the effectively-down monitors.
C2_IspOutage ==
    (Analysed /\ Router \notin DownSet(recent_events) /\ ServicesDown(recent_events))
        => /\ result.type = "ISP_OUTAGE"
           /\ Range(Affected(result)) = DownSet(recent_events)
           /\ NoDuplicates(Affected(result))
           /\ Router \notin Range(Affected(result))

\* an ISP outage seen while the router reports up
C2_Witness ==
    /\ Analysed /\ ServicesDown(recent_events)
    /\ Router \in MonitorsIn(recent_events) \ DownSet(recent_events)
    /\ result.type = "ISP_OUTAGE"
    /\ Range(Affected(result)) = DownSet(recent_events)

\* the statuses of a monitor's events, in the order of the list
StatusList(w, name) ==
    LET IsOf(e) == e.monitor_name = name
        own == SelectSeq(w, IsOf)
    IN  [i \in 1..Len(own) |-> own[i].status]

\* the router's events from the newest one back to the first that is not down
RouterDownRun(w) ==
    {i \in EventsOf(w, Router) :
        \A j \in EventsOf(w, Router) : j <= i => w[j].status = "down"}

\* the router's newest report is DOWN
RouterStillDown(w) == RouterDownRun(w) # {}

\* the instant of the DOWN event that began the router's present outage
RouterDownSince(w) ==
    w[CHOOSE i \in RouterDownRun(w) : \A j \in RouterDownRun(w) : j <= i].timestamp

\* the router went down and reported up again within the grace period:
\* its newest event is UP and the one before it is a DOWN at most 30 s older
QuickRestart(w) ==
    \E u, d \in EventsOf(w, Router) :
        /\ u = Newest(w, Router) /\ u < d
        /\ \A j \in EventsOf(w, Router) : j = u \/ j >= d
        /\ w[u].status = "up" /\ w[d].status = "down"
        /\ w[u].timestamp - w[d].timestamp <= GracePeriod

\* C6: when the list shows the router going DOWN and reporting UP again
\* within the grace period (30 s), analyze_pattern returns ROUTER_RESTART,
\* marked transient, with the router in affected.
C6_RouterRestart ==
    (Analysed /\ QuickRestart(recent_events))
        => /\ result.type = "ROUTER_RESTART"
           /\ IsTransient(result)
           /\ Router \in Range(Affected(result))

\* C7: when only the router is effectively down, its newest report is DOWN
\* and more than the failure threshold (120 s) has passed since its down
\* event, analyze_pattern returns ROUTER_FAILURE, not marked transient.
C7_RouterFailure ==
    (/\ Analysed
     /\ Router \in DownSet(recent_events) /\ ~ServicesDown(recent_events)
     /\ RouterStillDown(recent_events)
     /\ now - RouterDownSince(recent_events) > FailureThreshold)
        => (result.type = "ROUTER_FAILURE" /\ ~IsTransient(result))

\* the router down for 150 s while one DNS monitor and one site are down too
C7_Witness ==
    /\ Analysed
    /\ RouterStillDown(recent_events)
    /\ now - RouterDownSince(recent_events) > FailureThreshold
    /\ Cardinality(DnsDown(recent_events)) = 1
    /\ Cardinality(SitesDown(recent_events)) = 1
    /\ result.type = "ROUTER_FAILURE" /\ ~IsTransient(result)

\* C9: a monitor is judged down exactly when the first status of its list is
\* 'down' or strictly more than half of its statuses are 'down'; its status
\* list keeps the order of the supplied events.  The judgement shows in the
\* result: ALL_OPERATIONAL exactly when no monitor is judged down, the router
\* categories exactly when the router is, and in ISP_OUTAGE and
\* PARTIAL_OUTAGE the affected list holds the monitors judged down.
C9_EffectiveDown ==
    Analysed =>
        /\ \A name \in MonitorNames :
              /\ statuses_of(recent_events, name) = StatusList(recent_events, name)
              /\ is_monitor_down(statuses_of(recent_events, name))
                    <=> EffectivelyDown(recent_events, name)
        /\ recent_events # <<>> =>
              /\ result.type = "ALL_OPERATIONAL" <=> DownSet(recent_events) = {}
              /\ result.type \in {"POWER_OUTAGE", "ROUTER_FAILURE"}
                    <=> Router \in DownSet(recent_events)
              /\ result.type \in {"ISP_OUTAGE", "PARTIAL_OUTAGE"}
                    => Range(Affected(result)) = DownSet(recent_events)

\* one monitor whose newest status is up is judged down by its majority,
\* while another, up alone, is not
C9_Witness ==
    /\ Analysed
    /\ \E name \in MonitorNames \ {Router} :
          /\ StatusList(recent_events, name) = <<"up", "down", "down">>
          /\ Affected(result) = <<name>>
    /\ Cardinality(MonitorsIn(recent_events)) = 2

\* C10: in every result the affected list has no duplicates and holds only
\* monitors that are effectively down; for POWER_OUTAGE it is the set of the
\* monitors judged down.
C10_AffectedAreDown ==
    Analysed =>
        /\ NoDuplicates(Affected(result))
        /\ Range(Affected(result)) \subseteq DownSet(recent_events)
        /\ result.type = "POWER_OUTAGE"
              => Range(Affected(result)) = DownSet(recent_events)

(***************************************************************************)
(* The notifications, read off the calls of bot.send_message.              *)
(***************************************************************************)
\* the attempts to send an alert, and those that went out
AlertCalls == {i \in 1..Len(bot_calls) : bot_calls[i].kind = "alert"}

SentAlerts == {i \in AlertCalls : bot_calls[i].ok}

\* a worker is between the cooldown check and the recording of its send
InGate(t) == pc[t] \in {"send_message", "record"}

Classified(t) == pc[t] \in {"send_alert", "send_message", "record", "send_recovery"}

C4_AtomicGate ==
    /\ \A t1, t2 \in Threads :
          (t1 # t2 /\ InGate(t1) /\ InGate(t2))
              => alert_key(event[t1], analysis[t1]) # alert_key(event[t2], analysis[t2])
    /\ \A i, j \in SentAlerts :
          (i < j /\ bot_calls[i].key = bot_calls[j].key)
              => bot_calls[j].at - bot_calls[i].at >= notification_cooldown

\* C5: a dispatch that fails creates or updates no cooldown entry: every
\* entry of last_notification is the instant of a notification of its key
\* that went out, so a key whose dispatch failed is tried again.
C5_FailedNotRecorded ==
    \A key \in DOMAIN last_notification :
        \E i \in SentAlerts :
            /\ bot_calls[i].key = key
            /\ bot_calls[i].at = last_notification[key]

\* a dispatch failed and the next call for the key, at the same instant,
\* sent the notification and recorded it
C5_Witness ==
    \E i, j \in AlertCalls :
        /\ i < j
        /\ ~bot_calls[i].ok /\ bot_calls[j].ok
        /\ bot_calls[i].key = bot_calls[j].key
        /\ bot_calls[j].at = bot_calls[i].at
        /\ bot_calls[j].key \in DOMAIN last_notification
        /\ last_notification[bot_calls[j].key] = bot_calls[j].at

\* the router alone is down, its newest report is DOWN and the failure
\* threshold has not passed since its down event
RouterPending(w) ==
    /\ Router \in DownSet(w) /\ ~ServicesDown(w)
    /\ RouterStillDown(w)
    /\ now - RouterDownSince(w) <= FailureThreshold

KeyOf(t) == <<analysis[t].type, event[t].monitor_name>>

\* C11: checking the cooldown has no side effect: the step in which
\* send_alert checks the cooldown leaves last_notification as it was, a
\* suppressed call sends nothing, and a call whose key has no entry always
\* passes the check.
C11_CheckHasNoEffect ==
    [][\A t \in Threads :
          (pc[t] = "send_alert" /\ pc'[t] # "send_alert")
              => /\ last_notification' = last_notification
                 /\ pc'[t] = "idle" => bot_calls' = bot_calls
                 /\ KeyOf(t) \notin DOMAIN last_notification
                       => pc'[t] = "send_message"]_vars

\* a second DOWN report of the router, 299 s after the notified first one,
\* was suppressed and the entry of the key still holds the first instant
C11_Witness ==
    /\ Len(events) = 2
    /\ \A i \in 1..2 : events[i].monitor_name = Router /\ events[i].status = "down"
    /\ events[1].timestamp = 0 /\ events[2].timestamp = 299
    /\ \A t \in Threads : pc[t] = "idle"
    /\ \E t \in Threads : response[t] = 200
    /\ bot_calls = <<BotCall("alert", <<"ROUTER_FAILURE", Router>>, 0, TRUE)>>
    /\ last_notification = record_sent(<<>>, <<"ROUTER_FAILURE", Router>>, 0)

\* C12: once more than 300 seconds have passed since the last notification
\* of a key, every send_alert call for the key passes the cooldown check
\* until the next send is recorded, however long ago the notification was
\* (more than a day included).
C12_EligibleStaysEligible ==
    [][\A t \in Threads :
          (/\ pc[t] = "send_alert" /\ pc'[t] # "send_alert"
           /\ KeyOf(t) \in DOMAIN last_notification
           /\ now - last_notification[KeyOf(t)] > notification_cooldown)
              => pc'[t] = "send_message"]_vars

\* a notification of the key went out fewer than 300 seconds ago
Cooling(key) ==
    /\ key \in DOMAIN last_notification
    /\ now - last_notification[key] < notification_cooldown

PowerAlerts == {i \in SentAlerts : bot_calls[i].key[1] = "POWER_OUTAGE"}

\* C14: the alerts of a power outage share one cooldown key, whichever
\* monitor's event set off the evaluation, so two POWER_OUTAGE notifications
\* are never fewer than 300 seconds apart.
C14_OnePowerKey ==
    \A i, j \in PowerAlerts :
        i < j => /\ bot_calls[i].key = bot_calls[j].key
                 /\ bot_calls[j].at - bot_calls[i].at >= notification_cooldown

C17_EmptyIsUnknown ==
    (Analysed /\ recent_events = <<>>)
        => /\ result.type = "UNKNOWN"
           /\ result.reason = "No recent events"
           /\ Affected(result) = <<>>

\* analyze_pattern was called on the empty list
C17_Witness ==
    /\ Analysed /\ recent_events = <<>>
    /\ result.type = "UNKNOWN" /\ result.confidence = 0

\* C20: when the router is effectively down together with other monitors,
\* the affected list holds every effectively-down monitor and no other.
C20_AffectedWithRouter ==
    (/\ Analysed
     /\ Router \in DownSet(recent_events)
     /\ Cardinality(DownSet(recent_events)) >= 2)
        => Range(Affected(result)) = DownSet(recent_events)

\* the categories of a classification
Categories ==
    {"POWER_OUTAGE", "ISP_OUTAGE", "ROUTER_FAILURE", "ROUTER_RESTART",
     "PARTIAL_OUTAGE", "ALL_OPERATIONAL", "UNKNOWN"}

\* an event whose monitor name or status is missing
Malformed(e) == e.monitor_name = None \/ e.status = None

\* the list without its malformed events
WellFormed(w) == SelectSeq(w, LAMBDA e : ~Malformed(e))

\* C18: analyze_pattern never fails on events whose monitor name or status
\* is None: it returns a classification, UNKNOWN or PARTIAL_OUTAGE when the
\* list holds only such events, and the malformed events take no part: the
\* monitors judged down are those of the well-formed events.
C18_NeverFails ==
    Analysed =>
        /\ result.type \in Categories
        /\ (recent_events # <<>> /\ WellFormed(recent_events) = <<>>)
              => result.type \in {"UNKNOWN", "PARTIAL_OUTAGE"}
        /\ Range(Affected(result)) \subseteq MonitorsIn(WellFormed(recent_events))

C21_RouterFailureAtAnyAge ==
    (/\ Analysed
     /\ Router \in DownSet(recent_events)
     /\ Cardinality(DnsDown(recent_events)) < 2
     /\ Cardinality(SitesDown(recent_events)) < 2)
        => /\ result.type = "ROUTER_FAILURE"
           /\ Router \in Range(Affected(result))

\* the router reported DOWN at the current instant, the other services are up
C21_Witness ==
    /\ Analysed
    /\ RouterStillDown(recent_events)
    /\ RouterDownSince(recent_events) = now
    /\ DownSet(recent_events) = {Router}
    /\ Cardinality(MonitorsIn(recent_events)) >= 3
    /\ result.type = "ROUTER_FAILURE"
    /\ Affected(result) = <<Router>>

\* C22: a router restart is recognised also when other monitors are down
\* around it: if the router went DOWN and reported UP within the grace
\* period while a DNS monitor is still down or Wikipedia went down before,
\* the result is ROUTER_RESTART with the router in affected and the
\* unrelated site not in it.
C22_RestartAmongOutages ==
    (/\ Analysed
     /\ QuickRestart(recent_events)
     /\ DownSet(recent_events) \ {Router} # {})
        => /\ result.type = "ROUTER_RESTART"
           /\ Router \in Range(Affected(result))
           /\ "Wikipedia" \notin Range(Affected(result))

\* the router alternated DOWN and UP at least twice and reported UP last
Flapping(w) ==
    LET st == StatusList(w, Router)
    IN  /\ Len(st) >= 4
        /\ st[1] = "up"
        /\ \A i \in 1..(Len(st) - 1) : st[i] # st[i + 1]

\* C23: when the router alternates DOWN and UP several times inside the
\* list, ending with UP, the instability is detected: the router is in the
\* affected list of the result.
C23_FlappingDetected ==
    (Analysed /\ Flapping(recent_events))
        => Router \in Range(Affected(result))

\* the keys for which a notification went out
SentKeys == {bot_calls[i].key : i \in SentAlerts}

\* the latest notification of a key
LastSent(key) ==
    CHOOSE i \in SentAlerts :
        /\ bot_calls[i].key = key
        /\ \A j \in SentAlerts : bot_calls[j].key = key => j <= i

\* C24: after any sequence of send_alert calls last_notification has an
\* entry for exactly the keys for which a dispatch succeeded, each entry
\* holding the instant of the latest successful dispatch of its key, and no
\* entry is ever removed.
C24_CooldownMap ==
    /\ []((\A t \in Threads : pc[t] = "idle")
            => /\ DOMAIN last_notification = SentKeys
               /\ \A key \in SentKeys :
                     last_notification[key] = bot_calls[LastSent(key)].at)
    /\ [][DOMAIN last_notification \subseteq DOMAIN last_notification']_vars

\* a key notified twice, 300 s apart: its entry holds the second instant
C24_Witness ==
    /\ \A t \in Threads : pc[t] = "idle"
    /\ Len(bot_calls) = 2 /\ SentAlerts = {1, 2}
    /\ bot_calls[1].key = bot_calls[2].key
    /\ bot_calls[1].at = 0 /\ bot_calls[2].at = 300
    /\ DOMAIN last_notification = {bot_calls[1].key}
    /\ last_notification[bot_calls[1].key] = 300

\* the stored events at or after the cutoff, newest first
AtOrAfterCutoff(rows, clock, minutes) ==
    LET n == Len(rows)
        newest_first == [i \in 1..n |-> rows[n + 1 - i]]
    IN  SelectSeq(newest_first, LAMBDA row : row.timestamp >= clock - minutes * 60)

\* C25: get_recent_events(N) returns exactly the stored events whose
\* timestamp is at or after now minus N minutes, an event exactly at the
\* cutoff included, newest first (the empty list when there is none).
C25_WindowIncludesCutoff ==
    [][\A t \in Threads :
          (pc[t] = "analyze" /\ pc'[t] \in {"send_alert", "send_recovery"})
              => window'[t] = AtOrAfterCutoff(events, now, ANALYSIS_WINDOW)]_vars

\* the row add_event stored for an event
RowOf(ev) ==
    [monitor_name |-> ev.monitor_name, status |-> ev.status,
     timestamp |-> ev.timestamp]

\* the classification of worker t is made from the list fetched in this step
Classifies(t) == pc[t] = "analyze" /\ pc'[t] \in {"send_alert", "send_recovery"}

\* no message is sent before the classification, and the cooldown entry is
\* written only after the worker's own successful dispatch
DispatchInOrder ==
    /\ (bot_calls' # bot_calls /\ bot_calls'[Len(bot_calls')].kind # "test")
          => \E t \in Threads :
                /\ pc[t] \in {"send_message", "send_recovery"}
                /\ analysis[t] # NoResult
                /\ RowOf(event[t]) \in Range(events)
    /\ last_notification' # last_notification
          => \E t \in Threads :
                /\ pc[t] = "record"
                /\ \E i \in SentAlerts :
                      bot_calls[i] = BotCall("alert", KeyOf(t), alert_now[t], TRUE)

\* C26 as stated: the steps of a webhook come in the order append, fetch,
\* classify, cooldown check, dispatch, record: the classified list always
\* holds the event that set off the evaluation, nothing is dispatched before
\* the classification and the entry is written only after the dispatch.
C26_PipelineOrder ==
    [][/\ \A t \in Threads :
             Classifies(t) => RowOf(event[t]) \in Range(window'[t])
       /\ DispatchInOrder]_vars

\* C26, amended: the same order; the classified list holds the event that
\* set off the evaluation whenever the list is fetched fewer than
\* ANALYSIS_WINDOW minutes after the event was stamped.
C26_PipelineOrderInTime ==
    [][/\ \A t \in Threads :
             (Classifies(t) /\ now - event[t].timestamp < ANALYSIS_WINDOW * 60)
                 => RowOf(event[t]) \in Range(window'[t])
       /\ \A t \in Threads :
             Classifies(t) => RowOf(event[t]) \in Range(events)
       /\ DispatchInOrder]_vars

\* a request went through append, fetch, classification, check and
\* dispatch, and is about to record its send
C26_Witness ==
    \E t \in Threads :
        /\ pc[t] = "record"
        /\ Len(window[t]) = 2
        /\ window[t][1] = RowOf(event[t])
        /\ event[t].timestamp = 299
        /\ bot_calls[Len(bot_calls)] = BotCall("alert", KeyOf(t), 299, TRUE)
        /\ KeyOf(t) \notin DOMAIN last_notification

\* the requests that were test notifications (they store nothing)
TestCalls == {i \in 1..Len(bot_calls) : bot_calls[i].kind = "test"}

\* C27: the events table is append-only: every add_event call adds exactly
\* one row and leaves the rows stored before as they were, so after k calls
\* from the concurrent workers the table holds exactly k rows.
C27_AppendOnly ==
    /\ [](Len(events) = requests - Cardinality(TestCalls))
    /\ [][\/ events' = events
          \/ /\ Len(events') = Len(events) + 1
             /\ SubSeq(events', 1, Len(events)) = events
             /\ requests' = requests + 1]_vars

\* two workers stored their events of the same monitor at the same time
C27_Witness ==
    /\ \A t \in Threads : pc[t] = "analyze"
    /\ Len(events) = 2
    /\ events[1].monitor_name = events[2].monitor_name
    /\ events[1].status # events[2].status
    /\ requests = 2

\* C28: the store operations of concurrent threads are isolated: a thread
\* that reads the number of recent events, adds one event and reads the
\* number again always sees an increase of exactly 1.
C28_IncreaseOfOne ==
    \A i \in 1..Len(results) : results[i] = 1

\* C29: a request whose body is malformed JSON or empty, or lacks the
\* heartbeat object, the monitor object, heartbeat.status or monitor.name,
\* is rejected with HTTP 400 (or 422) and is not accepted as an event.
\* (Every request of SpecPayload is such a request.)
C29_Rejected ==
    /\ \A t \in Threads : response[t] \in {0, 400, 422}
    /\ events = <<>>

\* C30: every well-formed heartbeat webhook is answered with HTTP 200,
\* whatever the classification and however the concurrent requests
\* interleave.  (A worker that is not idle is processing a heartbeat; a test
\* notification is answered in the step that receives it.)
C30_HeartbeatAnswered200 ==
    [][\A t \in Threads :
          (pc[t] # "idle" /\ pc'[t] = "idle") => response'[t] = 200]_vars


\* the classifications for which the webhook calls send_alert as an outage
OutageTypes == {"POWER_OUTAGE", "ROUTER_FAILURE", "ISP_OUTAGE", "PARTIAL_OUTAGE"}

UpWithUpMsg(ev) == ev.status = "up" /\ ev.message = "is up"

\* the call the step adds to the calls made on the bot, as a set
NewCalls == {c \in Range(bot_calls') : bot_calls' = Append(bot_calls, c)}

FetchedWindow == get_recent_events(events, now, ANALYSIS_WINDOW)

\* worker t classifies the window for an UP report whose msg contains 'up'
ClassifiesUp(t) ==
    pc[t] = "analyze" /\ pc'[t] # "analyze" /\ UpWithUpMsg(event[t])

\* C33 (as stated): when a monitor reports UP with a msg containing 'up'
\* and no other monitor is down, the webhook produces a recovery
\* notification and not an outage alert, however many earlier DOWN reports
\* of the monitor are still in the window.
C33_RecoveryWhateverTheHistory ==
    [][\A t \in Threads :
          (ClassifiesUp(t) /\ FetchedWindow # <<>>
              /\ DownSet(FetchedWindow) \subseteq {event[t].monitor_name})
             => pc'[t] = "send_recovery"]_vars

\* C33 (amended): the UP report is handled as a recovery exactly when no
\* monitor of the fetched window is effectively down; while the DOWN
\* reports of the reporting monitor are a strict majority of its reports in
\* the window, the monitor still counts as down and the webhook goes to
\* send_alert instead.
C33_RecoveryUnlessMajorityDown ==
    [][\A t \in Threads :
          /\ (ClassifiesUp(t) /\ FetchedWindow # <<>>
                  /\ DownSet(FetchedWindow) = {})
                 => pc'[t] = "send_recovery"
          /\ (ClassifiesUp(t)
                  /\ event[t].monitor_name \in DownSet(FetchedWindow))
                 => pc'[t] = "send_alert"]_vars

\* the monitor's UP report follows one DOWN report that is still in the
\* window, and the handler is about to send the recovery message
C33_Witness ==
    \E t \in Threads :
        /\ pc[t] = "send_recovery"
        /\ UpWithUpMsg(event[t])
        /\ StatusList(window[t], event[t].monitor_name) = <<"up", "down">>


\* C34: while the condition persists, webhooks for it keep arriving and the
\* Telegram call does not fail for ever, a notification for the key is
\* dispatched again and again: no suppressed or failed attempt blocks the
\* key for good.
C34_DispatchedAgainAndAgain ==
    []<>(\E t \in Threads : pc[t] = "record")


\* C35: a webhook recognised as a test notification (msg contains
\* 'testing', or heartbeat and monitor are both absent) only sends the test
\* confirmation: no event is stored for it, nothing is classified and the
\* cooldown map stays as it is.  (In SpecTest every body that names
\* another monitor than the router, or none, is a test notification.)
C35_TestOnlyConfirms ==
    /\ [](\A i \in 1..Len(events) : events[i].monitor_name = Router)
    /\ [][(\E c \in NewCalls : c.kind = "test")
            => /\ events' = events
               /\ last_notification' = last_notification
               /\ \A t \in Threads : pc[t] = "idle" /\ pc'[t] = "idle"
               /\ window' = window /\ analysis' = analysis
               /\ event' = event]_vars

\* a test confirmation has just been sent by a server that holds the
\* router's DOWN report and the cooldown entry of its alert: both are as
\* the alert left them
C35_Witness ==
    /\ \A t \in Threads : pc[t] = "idle"
    /\ Len(bot_calls) = 2
    /\ bot_calls[1].kind = "alert" /\ bot_calls[1].ok
    /\ bot_calls[2].kind = "test" /\ bot_calls[2].ok
    /\ Len(events) = 1 /\ events[1].status = "down"
    /\ DOMAIN last_notification = {bot_calls[1].key}
    /\ last_notification[bot_calls[1].key] = bot_calls[1].at
    /\ requests = 2


\* the bodies that carry both a heartbeat and a monitor object
ProbeReports ==
    {data \in TestNotifications \cup RouterBodies :
        data.heartbeat # <<>> /\ data.monitor # <<>>}

\* C36: no probe report is dropped: every webhook that carries both a
\* heartbeat and a monitor object is not answered as a test notification
\* but appends exactly one event to the store, with status 'down' if and
\* only if heartbeat.status is 0, whatever its msg says.
C36_ReportStored ==
    [][\A t \in SeqThreads, data \in ProbeReports :
          /\ \A ok \in BOOLEAN : ~ReceiveTest(t, data, ok, MaxRequests)
          /\ ReceiveWebhook(t, data, MaxRequests)
                => /\ Len(events') = Len(events) + 1
                   /\ SubSeq(events', 1, Len(events)) = events
                   /\ events'[Len(events')].monitor_name
                          = data.monitor[1].name[1]
                   /\ (events'[Len(events')].status = "down")
                          <=> (data.heartbeat[1].status = <<0>>)]_vars


\* the list with the events at positions i and i + 1 exchanged
Exchanged(w, i) ==
    [k \in 1..Len(w) |-> IF k = i THEN w[i + 1] ELSE IF k = i + 1 THEN w[i] ELSE w[k]]

\* the positions at which two events of different monitors are neighbours:
\* exchanging them keeps the order of every monitor's own events
Neighbours(w) ==
    {i \in 1..(Len(w) - 1) : w[i].monitor_name # w[i + 1].monitor_name}

\* C37: the classification depends only on each monitor's own sequence of
\* statuses: a list that differs from the analysed one in the order of
\* events of different monitors only (here: by one exchange of neighbours,
\* of which every such permutation is made up) gets the same type and the
\* same affected monitors, as a set.
C37_OrderAcrossMonitors ==
    Analysed =>
        \A i \in Neighbours(recent_events) :
            LET other == analyze_pattern(Exchanged(recent_events, i))
            IN  /\ other.type = result.type
                /\ Range(Affected(other)) = Range(Affected(result))

\* two monitors are down and their reports are neighbours: exchanging them
\* turns the affected list round, and the type and the set stay
C37_Witness ==
    /\ Analysed
    /\ result.type \in {"ISP_OUTAGE", "PARTIAL_OUTAGE", "POWER_OUTAGE"}
    /\ \E i \in Neighbours(recent_events) :
          LET other == analyze_pattern(Exchanged(recent_events, i))
          IN  /\ Affected(other) # Affected(result)
              /\ Range(Affected(other)) = Range(Affected(result))
              /\ other.type = result.type

====
